---- MODULE Spec2Model ----
(***************************************************************************)
(* Model of the Handlebars live preview extension (src/src/extension.ts): *)
(* the HandlebarsPreviewProvider class, the commands registered by        *)
(* activate, and the host environment they talk to (the webview panel,    *)
(* the file system, the file system watchers, the module loader).         *)
(*                                                                         *)
(* Strings are TLA+ strings; the JavaScript string methods the code uses  *)
(* (startsWith, endsWith, includes, replace, path.join) are operators on  *)
(* them, computed character by character.                                  *)
(***************************************************************************)
EXTENDS Integers, Sequences, FiniteSets, TLC

VARIABLES
  config,        \* the handlebarsPreview settings of the workspace
  fs,            \* the file system: the content of every file, or Absent
  panel,         \* this._panel: the id of the provider's panel, 0 = undefined
  panels,        \* host: the webview panels that exist
  handlers,      \* host: number of onDidReceiveMessage handlers per panel
  watchers,      \* this._watchers: sequence of watcher ids
  hostWatchers,  \* host: the watchers created and not yet disposed
  cache,         \* this._templateDataCache
  partials,      \* handlebars.partials, the engine's partial table
  helpers,       \* handlebars.helpers, the custom helpers registered
  loads,         \* the loadCustomHelpers calls suspended at `await import`
  reload,        \* history: the most recent reloadHelpers call
  events,        \* host: watcher events raised and not yet delivered
  tally,         \* history: messages posted for the latest file event
  outbox,        \* messages posted to the webview by the last step
  notes,         \* notifications shown to the user by the last step
  last,          \* history: the last step, an operation or a file event
  sent,          \* history: per template name, the data of its last successful
                 \* render, or "cleared" after a clear, or "none"
  order,         \* history: the cache writes and the answers of the last data
                 \* request, in program order, each with the cache at that moment
  faults         \* host: the paths whose read fails: a directory that cannot
                 \* be listed, a file entry that cannot be stat'ed

vars == <<config, fs, panel, panels, handlers, watchers, hostWatchers, cache,
          partials, helpers, loads, reload, events, tally, outbox, notes, last,
          sent, order, faults>>

-----------------------------------------------------------------------------
(* Bounds of the model *)

MaxPanels == 2     \* panel ids the host can hand out
MaxWatchers == 4   \* watcher ids the host can hand out
MaxLoads == 2      \* helper loads that can be suspended at the same time

-----------------------------------------------------------------------------
(* JavaScript strings and paths *)

StartsWith(s, p) == Len(s) >= Len(p) /\ SubSeq(s, 1, Len(p)) = p

EndsWith(s, p) == Len(s) >= Len(p) /\ SubSeq(s, Len(s) - Len(p) + 1, Len(s)) = p

RECURSIVE IndexFrom(_, _, _)
\* the first position >= i at which p occurs in s, 0 when there is none
IndexFrom(s, p, i) ==
  IF i + Len(p) - 1 > Len(s) THEN 0
  ELSE IF SubSeq(s, i, i + Len(p) - 1) = p THEN i
  ELSE IndexFrom(s, p, i + 1)

\* String.prototype.indexOf, 1-based; 0 when p does not occur in s
IndexOf(s, p) == IndexFrom(s, p, 1)

Includes(s, p) == IndexOf(s, p) # 0

\* String.prototype.replace with a string pattern: the first occurrence only
Replace(s, p, r) ==
  LET i == IndexOf(s, p)
  IN IF i = 0 THEN s
     ELSE SubSeq(s, 1, i - 1) \o r \o SubSeq(s, i + Len(p), Len(s))

\* path.join of a directory and a relative path, both already normalised
Join(a, b) == a \o "/" \o b

RECURSIVE JoinWith(_, _)
\* Array.prototype.join
JoinWith(names, sep) ==
  IF names = <<>> THEN ""
  ELSE IF Len(names) = 1 THEN names[1]
  ELSE names[1] \o sep \o JoinWith(Tail(names), sep)

\* Array.prototype.includes
SeqIncludes(seq, x) == \E i \in 1..Len(seq) : seq[i] = x

Range(seq) == {seq[i] : i \in 1..Len(seq)}

\* a mapping with key k set to v (Map.set, registerPartial, registerHelper)
Put(t, k, v) == [x \in (DOMAIN t) \cup {k} |-> IF x = k THEN v ELSE t[x]]

\* a mapping without key k (Map.delete)
Remove(t, k) == [x \in (DOMAIN t) \ {k} |-> t[x]]

EmptyMap == [x \in {} |-> ""]

-----------------------------------------------------------------------------
(* The workspace on disk *)

workspaceRoot == "/w"

Absent == "absent"

\* the directories of the workspace; they exist throughout
Dirs == {"/w/views", "/w/views/components", "/w/p"}

TemplateFiles ==
  {"/w/views/a.hbs", "/w/views/b.hbs", "/w/views/g.hbs", "/w/views/components/c.hbs"}
PartialFiles == {"/w/p/card.hbs"}
HbsFiles == TemplateFiles \cup PartialFiles
HelpersFile == "/w/h.js"
OtherFiles == {"/w/views/n.txt"}
FilePaths == HbsFiles \cup OtherFiles \cup {HelpersFile}

\* the directory entries in the order readdirSync lists them
DirEntries(dir) ==
  CASE dir = "/w/views" -> <<"a.hbs", "b.hbs", "components", "g.hbs", "n.txt">>
    [] dir = "/w/views/components" -> <<"c.hbs">>
    [] dir = "/w/p" -> <<"card.hbs">>
    [] OTHER -> <<>>

existsSync(path) == path \in Dirs \/ (path \in FilePaths /\ fs[path] # Absent)

IsDirectory(path) == path \in Dirs

readdirSync(dir) == SelectSeq(DirEntries(dir), LAMBDA e : existsSync(Join(dir, e)))

readFileSync(path) == fs[path]


-----------------------------------------------------------------------------
(* Configuration Reader *)

\* a setting the user has set to v / has not set (config.get gives undefined)
Set(v) == [set |-> TRUE, value |-> v]
Unset == [set |-> FALSE, value |-> <<>>]

getConfiguration ==
  [templateDirectories |->
     IF config.templateDirectories.set THEN config.templateDirectories.value
     ELSE <<"templates", "src/templates", "views">>,
   partialsDirectories |->
     IF config.partialsDirectories.set THEN config.partialsDirectories.value
     ELSE <<>>,
   customHelpersFile |-> config.customHelpersFile]

\* dir.startsWith("/") ? dir : join(this._workspaceRoot, dir)
ResolvePath(dir) == IF StartsWith(dir, "/") THEN dir ELSE Join(workspaceRoot, dir)

RECURSIVE MapResolve(_)
MapResolve(dirs) ==
  IF dirs = <<>> THEN <<>> ELSE <<ResolvePath(Head(dirs))>> \o MapResolve(Tail(dirs))

getTemplateDirectories ==
  SelectSeq(MapResolve(getConfiguration.templateDirectories), existsSync)

getPartialsDirectories ==
  LET c == getConfiguration
      partialsDirs == IF Len(c.partialsDirectories) > 0
                      THEN c.partialsDirectories
                      ELSE c.templateDirectories
  IN SelectSeq(MapResolve(partialsDirs), existsSync)

-----------------------------------------------------------------------------
(* File-System Scanner *)

RECURSIVE getTemplatesRecursively(_, _, _)
RECURSIVE ScanTemplateEntries(_, _, _, _)

\* statSync(filePath) throws: the entry is a file whose stat fails (a listing
\* that fails is the matter of the directory's own readdirSync)
StatFails(filePath) == filePath \in faults /\ filePath \notin Dirs

\* the body of files.forEach in getTemplatesRecursively, entry by entry; a
\* throw of statSync ends the forEach and is caught at line 431, so the
\* entries not yet visited are skipped
ScanTemplateEntries(dir, files, templates, baseDir) ==
  IF files = <<>> THEN templates
  ELSE LET file == Head(files)
           filePath == Join(dir, file)
           relativePath == Replace(filePath, baseDir \o "/", "")
           templateName == Replace(relativePath, ".hbs", "")
           directoryName == Replace(baseDir, workspaceRoot \o "/", "")
           after ==
             IF IsDirectory(filePath)
             THEN getTemplatesRecursively(filePath, templates, baseDir)
             ELSE IF EndsWith(file, ".hbs")
             THEN Append(templates, [name |-> templateName,
                                     directory |-> directoryName,
                                     fullPath |-> filePath])
             ELSE templates
       IN IF StatFails(filePath) THEN templates
          ELSE ScanTemplateEntries(dir, Tail(files), after, baseDir)

\* a throw of readdirSync(dir) is caught at line 431 as well
getTemplatesRecursively(dir, templates, baseDir) ==
  IF dir \in faults THEN templates
  ELSE ScanTemplateEntries(dir, readdirSync(dir), templates, baseDir)

RECURSIVE ScanTemplateDirs(_, _)
ScanTemplateDirs(dirs, templates) ==
  IF dirs = <<>> THEN templates
  ELSE ScanTemplateDirs(Tail(dirs),
                        getTemplatesRecursively(Head(dirs), templates, Head(dirs)))

\* mutant: the scan result is returned without the filter on the names
getAvailableTemplates_NoFilter == ScanTemplateDirs(getTemplateDirectories, <<>>)

getAvailableTemplates ==
  SelectSeq(ScanTemplateDirs(getTemplateDirectories, <<>>),
            LAMBDA t : ~Includes(t.name, "components/"))

\* templates.find((t) => t.name === templateName): the first match, <<>> if none
FindTemplate(templates, templateName) ==
  SelectSeq(templates, LAMBDA t : t.name = templateName)

-----------------------------------------------------------------------------
(* Partial Registrar *)

RECURSIVE registerPartialsRecursively(_, _)
RECURSIVE RegisterPartialEntries(_, _, _)

\* the body of files.forEach in registerPartialsRecursively, entry by entry;
\* table is handlebars.partials; a throw of statSync ends the forEach and is
\* caught at line 301
RegisterPartialEntries(dir, files, table) ==
  IF files = <<>> THEN table
  ELSE LET file == Head(files)
           filePath == Join(dir, file)
           relativePath == Replace(filePath, workspaceRoot \o "/", "")
           partialName == Replace(relativePath, ".hbs", "")
           content == readFileSync(filePath)
           fileName == Replace(file, ".hbs", "")
           full == Put(table, partialName, content)
           after ==
             IF IsDirectory(filePath)
             THEN registerPartialsRecursively(filePath, table)
             ELSE IF EndsWith(file, ".hbs")
             THEN IF fileName # partialName THEN Put(full, fileName, content) ELSE full
             ELSE table
       IN IF StatFails(filePath) THEN table
          ELSE RegisterPartialEntries(dir, Tail(files), after)

registerPartialsRecursively(dir, table) ==
  IF dir \in faults THEN table
  ELSE RegisterPartialEntries(dir, readdirSync(dir), table)

RECURSIVE RegisterPartialDirs(_, _)
RegisterPartialDirs(dirs, table) ==
  IF dirs = <<>> THEN table
  ELSE RegisterPartialDirs(Tail(dirs), registerPartialsRecursively(Head(dirs), table))

\* mutant: the table is emptied before the directories are walked
registerPartialsTable_Rebuild(table) == RegisterPartialDirs(getPartialsDirectories, EmptyMap)

\* registerPartials: the partial table after it ...
registerPartialsTable(table) == RegisterPartialDirs(getPartialsDirectories, table)

\* ... and the messages posted after it, given those posted so far and the panel
Post(box, p, msg) == IF p # 0 THEN Append(box, msg) ELSE box

Msg(command, payload) == [command |-> command, payload |-> payload]

registerPartialsPost(box, p) == Post(box, p, Msg("partialsRegistered", ""))

-----------------------------------------------------------------------------
(* The templating engine (an external library), as far as the code relies  *)
(* on it.  A file's content is a version tag; "bad" is a text that does    *)
(* not compile.  What a template refers to is fixed by its path.           *)

Contents == {"v1", "v2", "bad"}

\* the partial a template includes with {{> name}}, "" if none
UsesPartial(fullPath) == IF fullPath = "/w/views/a.hbs" THEN "card" ELSE ""

\* the custom helper a template calls, "" if none
UsesHelper(fullPath) == IF fullPath = "/w/views/g.hbs" THEN "greet" ELSE ""

Ok(value) == [ok |-> TRUE, value |-> value]
Throw(message) == [ok |-> FALSE, value |-> message]

\* handlebars.compile(templateContent)(data) with the tables in scope
CompileAndRun(fullPath, templateContent, data, partialTable, helperTable) ==
  LET p == UsesPartial(fullPath)
      h == UsesHelper(fullPath)
  IN IF templateContent = "bad" THEN Throw("Parse error")
     ELSE IF p # "" /\ p \notin DOMAIN partialTable
     THEN Throw("The partial " \o p \o " could not be found")
     ELSE IF p # "" /\ partialTable[p] = "bad" THEN Throw("Parse error")
     ELSE IF h # "" /\ h \notin DOMAIN helperTable
     THEN Throw("Missing helper: " \o h)
     ELSE Ok([template |-> templateContent,
              partial |-> IF p = "" THEN "" ELSE partialTable[p],
              helper |-> IF h = "" THEN "" ELSE helperTable[h],
              data |-> data])

-----------------------------------------------------------------------------
(* Template Data Store *)

\* the values a message can carry as its data: any JSON value, or none
DataValues == {"undefined", "null", "false", "0", "", "{}", "{a:1}", "{a:2}"}

\* JavaScript truthiness of a data value
Falsy(d) == d \in {"undefined", "null", "false", "0", ""}

\* d || {}
OrEmptyObject(d) == IF Falsy(d) THEN "{}" ELSE d

getTemplateDataKey(templateName) == workspaceRoot \o ":" \o templateName

\* mutant: the save drops the entries of the other names
saveTemplateData_OnlyEntry(map, templateName, data) ==
  Put(EmptyMap, getTemplateDataKey(templateName), data)

\* mutant: the entry is not written
saveTemplateData_NoWrite(map, templateName, data) == map

saveTemplateData(map, templateName, data) ==
  Put(map, getTemplateDataKey(templateName), data)

\* mutant: the lookup uses the bare template name, not the composite key
getTemplateData_BareKey(map, templateName) ==
  IF templateName \in DOMAIN map THEN OrEmptyObject(map[templateName]) ELSE "{}"

getTemplateData(map, templateName) ==
  LET key == getTemplateDataKey(templateName)
  IN IF key \in DOMAIN map THEN OrEmptyObject(map[key]) ELSE "{}"

\* mutant: the entry is not deleted
clearTemplateData_NoDelete(map, templateName) == map

clearTemplateData(map, templateName) ==
  Remove(map, getTemplateDataKey(templateName))

-----------------------------------------------------------------------------
(* Render Pipeline *)

\* mutant: the partials are re-registered before the template is looked up
renderTemplate_RegistersFirst(templateName, data, box) ==
  LET templates == getAvailableTemplates
      found == FindTemplate(templates, templateName)
      template == Head(found)
      table == registerPartialsTable(partials)
  IN IF found = <<>>
     THEN [result |-> Throw("Template not found: " \o templateName),
           partials |-> table,
           box |-> registerPartialsPost(box, panel)]
     ELSE [result |-> CompileAndRun(template.fullPath,
                                    readFileSync(template.fullPath),
                                    data, table, helpers),
           partials |-> table,
           box |-> registerPartialsPost(box, panel)]

\* mutant: the template is compiled against the partial table as it was
\* before the re-registration
renderTemplate_StalePartials(templateName, data, box) ==
  LET templates == getAvailableTemplates
      found == FindTemplate(templates, templateName)
      template == Head(found)
      table == registerPartialsTable(partials)
  IN IF found = <<>>
     THEN [result |-> Throw("Template not found: " \o templateName),
           partials |-> partials,
           box |-> box]
     ELSE [result |-> CompileAndRun(template.fullPath,
                                    readFileSync(template.fullPath),
                                    data, partials, helpers),
           partials |-> table,
           box |-> registerPartialsPost(box, panel)]

\* renderTemplate: its result (the markup or the error thrown), the partial
\* table and the messages posted when it returns
renderTemplate(templateName, data, box) ==
  LET templates == getAvailableTemplates
      found == FindTemplate(templates, templateName)
      template == Head(found)
      table == registerPartialsTable(partials)
  IN IF found = <<>>
     THEN [result |-> Throw("Template not found: " \o templateName),
           partials |-> partials,
           box |-> box]
     ELSE [result |-> CompileAndRun(template.fullPath,
                                    readFileSync(template.fullPath),
                                    data, table, helpers),
           partials |-> table,
           box |-> registerPartialsPost(box, panel)]

\* refreshTemplates / autoRerender: the messages posted when they return
refreshTemplates(box, p) == Post(box, p, Msg("templates", getAvailableTemplates))

autoRerender(box, p) == Post(box, p, Msg("autoRerender", ""))

-----------------------------------------------------------------------------
(* Helper Loader *)

\* JavaScript values a helpers module can export
JsValue(type, falsy, null, entries, body) ==
  [type |-> type, falsy |-> falsy, null |-> null, entries |-> entries, body |-> body]
JsFunction(body) == JsValue("function", FALSE, FALSE, <<>>, body)
JsObject(entries) == JsValue("object", FALSE, FALSE, entries, "")
JsNumber(n) == JsValue("number", n = 0, FALSE, <<>>, "")
JsNull == JsValue("object", TRUE, TRUE, <<>>, "")
JsString(str) == JsValue("string", str = "", FALSE, <<>>, "")
JsBoolean(b) == JsValue("boolean", ~b, FALSE, <<>>, "")
JsUndefined == JsValue("undefined", TRUE, FALSE, <<>>, "")
Entry(name, value) == [name |-> name, value |-> value]

\* the contents the helpers file can have: what `await import` yields for each,
\* as the module namespace [hasDefault, default, named]
HelperContents == {"greet=f1", "greet=f2"}

Namespace(default) == [hasDefault |-> TRUE, default |-> default, named |-> <<>>]

\* a module with named exports only (export function greet ...)
NamedOnly(named) == [hasDefault |-> FALSE, default |-> JsUndefined, named |-> named]

\* every shape of export the helpers file can have
ExportShapes ==
  HelperContents \cup
    {"pair=f1", "pair=f2", "mixed", "empty", "noFn", "named", "fn",
     "num7", "num0", "str", "str0", "true", "false", "null", "undefined", "throws"}

\* the shapes whose exported value is not an object
NonObjectShapes == {"fn", "num7", "num0", "str", "str0", "true", "false", "null", "undefined"}

ModuleOf(content) ==
  CASE content = "greet=f1" -> Namespace(JsObject(<<Entry("greet", JsFunction("f1"))>>))
    [] content = "greet=f2" -> Namespace(JsObject(<<Entry("greet", JsFunction("f2"))>>))
    [] content = "pair=f1" -> Namespace(JsObject(<<Entry("greet", JsFunction("f1")),
                                                   Entry("shout", JsFunction("f1"))>>))
    [] content = "pair=f2" -> Namespace(JsObject(<<Entry("greet", JsFunction("f2")),
                                                   Entry("shout", JsFunction("f2"))>>))
    [] content = "mixed" -> Namespace(JsObject(<<Entry("version", JsNumber(2)),
                                                 Entry("greet", JsFunction("f1")),
                                                 Entry("label", JsString("x"))>>))
    [] content = "empty" -> Namespace(JsObject(<<>>))
    [] content = "noFn" -> Namespace(JsObject(<<Entry("version", JsNumber(2))>>))
    [] content = "named" -> NamedOnly(<<Entry("greet", JsFunction("f1"))>>)
    [] content = "fn" -> Namespace(JsFunction("f1"))
    [] content = "num7" -> Namespace(JsNumber(7))
    [] content = "num0" -> Namespace(JsNumber(0))
    [] content = "str" -> Namespace(JsString("x"))
    [] content = "str0" -> Namespace(JsString(""))
    [] content = "true" -> Namespace(JsBoolean(TRUE))
    [] content = "false" -> Namespace(JsBoolean(FALSE))
    [] content = "undefined" -> Namespace(JsUndefined)
    [] OTHER -> Namespace(JsNull)

\* the import of helpersPath: the module of the file as it is once the import
\* resolves (line 181 drops the cached module first), or the rejection
Import(helpersPath) ==
  IF ~existsSync(helpersPath) THEN Throw("Cannot find module " \o helpersPath)
  ELSE IF readFileSync(helpersPath) = "throws" THEN Throw("Unexpected token")
  ELSE Ok(ModuleOf(readFileSync(helpersPath)))

\* Object.entries of the module namespace object
NamespaceEntries(module) ==
  (IF module.hasDefault THEN <<Entry("default", module.default)>> ELSE <<>>)
    \o module.named

\* module.default || module
ExportedHelpers(module) ==
  IF module.hasDefault /\ ~module.default.falsy THEN module.default
  ELSE JsObject(NamespaceEntries(module))

RECURSIVE RegisterEntries(_, _, _)
\* Object.entries(helpers).forEach: the helper table and registeredHelpers after
RegisterEntries(entries, table, registeredHelpers) ==
  IF entries = <<>> THEN [table |-> table, registeredHelpers |-> registeredHelpers]
  ELSE LET e == Head(entries)
       IN IF e.value.type = "function"
          THEN RegisterEntries(Tail(entries), Put(table, e.name, e.value.body),
                               Append(registeredHelpers, e.name))
          ELSE RegisterEntries(Tail(entries), table, registeredHelpers)

Note(level, text) == [level |-> level, text |-> text]

\* mutant: the load does not test whether the helpers file exists
loadCustomHelpersStart_NoExistsCheck ==
  LET c == getConfiguration
      helpersPath == ResolvePath(c.customHelpersFile)
  IN IF c.customHelpersFile = "" THEN "" ELSE helpersPath

\* loadCustomHelpers up to its suspension at `await import`: the path it is
\* importing, or "" when it returned before (nothing configured, file missing)
loadCustomHelpersStart ==
  LET c == getConfiguration
      helpersPath == ResolvePath(c.customHelpersFile)
  IN IF c.customHelpersFile = "" THEN ""
     ELSE IF ~existsSync(helpersPath) THEN ""
     ELSE helpersPath

\* mutant: the resumption registers the first entry of the export only
loadCustomHelpersResume_FirstOnly(helpersPath, table) ==
  LET imported == Import(helpersPath)
      exported == ExportedHelpers(imported.value)
      done == RegisterEntries(SubSeq(exported.entries, 1, 1), table, <<>>)
  IN IF imported.ok /\ exported.type = "object" /\ ~exported.null
     THEN [table |-> done.table,
           registered |-> done.registeredHelpers,
           promise |-> "fulfilled",
           note |-> Note("info", "Handlebars Live Preview: Registered")]
     ELSE [table |-> table,
           registered |-> <<>>,
           promise |-> "fulfilled",
           note |-> Note("error", "Handlebars Live Preview: Failed to load custom helpers")]

\* loadCustomHelpers from the resumption after `await import` to its end:
\* the helper table, the notification shown and how its promise settles (the
\* catch of lines 233-243 takes the rejection of the import)
loadCustomHelpersResume(helpersPath, table) ==
  LET imported == Import(helpersPath)
      exported == ExportedHelpers(imported.value)
      done == RegisterEntries(exported.entries, table, <<>>)
  IN IF ~imported.ok
     THEN [table |-> table,
           registered |-> <<>>,
           promise |-> "fulfilled",
           note |-> Note("error",
                         "Handlebars Live Preview: Failed to load custom helpers: "
                           \o imported.value)]
     ELSE IF exported.type = "object" /\ ~exported.null
     THEN [table |-> done.table,
           registered |-> done.registeredHelpers,
           promise |-> "fulfilled",
           note |-> IF Len(done.registeredHelpers) > 0
                    THEN Note("info",
                              "Handlebars Live Preview: Registered "
                                \o ToString(Len(done.registeredHelpers))
                                \o " custom helpers: "
                                \o JoinWith(done.registeredHelpers, ", "))
                    ELSE Note("warning",
                              "Handlebars Live Preview: No valid helper functions found in custom helpers file")]
     ELSE [table |-> table,
           registered |-> <<>>,
           promise |-> "fulfilled",
           note |-> Note("error",
                         "Handlebars Live Preview: Custom helpers file should export an object with helper functions")]

\* the .catch registerHelpers puts on the promise of loadCustomHelpers (lines
\* 153-158): what the host sees of a promise that settles as given
registerHelpersCatch(promise) == IF promise = "rejected" THEN "caught" ELSE promise

IdleLoads == {i \in 1..MaxLoads : loads[i] = ""}

\* registerHelpers: the suspended loads after it; the new load takes the
\* lowest idle slot
registerHelpers ==
  LET helpersPath == loadCustomHelpersStart
      slot == CHOOSE i \in IdleLoads : \A j \in IdleLoads : i <= j
  IN IF helpersPath = "" THEN [loads |-> loads, slot |-> 0]
     ELSE [loads |-> [loads EXCEPT ![slot] = helpersPath], slot |-> slot]

-----------------------------------------------------------------------------
(* Change-Notification Layer *)

FreeWatcherIds == (1..MaxWatchers) \ DOMAIN hostWatchers

LowestFree(used) ==
  CHOOSE i \in (1..MaxWatchers) \ used : \A j \in (1..MaxWatchers) \ used : i <= j

Watcher(relativeDir, kind) == [relativeDir |-> relativeDir, kind |-> kind]

RECURSIVE WatchTemplateDirs(_, _)
\* templateDirs.forEach of setupFileWatchers; st = [host, list]
WatchTemplateDirs(dirs, st) ==
  IF dirs = <<>> THEN st
  ELSE LET relativeDir == Replace(Head(dirs), workspaceRoot \o "/", "")
           id == LowestFree(DOMAIN st.host)
       IN WatchTemplateDirs(Tail(dirs),
            [host |-> Put(st.host, id, Watcher(relativeDir, "template")),
             list |-> Append(st.list, id)])

RECURSIVE WatchPartialsDirs(_, _, _)
\* partialsDirs.forEach of setupFileWatchers
WatchPartialsDirs(dirs, templateDirs, st) ==
  IF dirs = <<>> THEN st
  ELSE LET relativeDir == Replace(Head(dirs), workspaceRoot \o "/", "")
           id == LowestFree(DOMAIN st.host)
       IN IF ~SeqIncludes(templateDirs, Head(dirs))
          THEN WatchPartialsDirs(Tail(dirs), templateDirs,
                 [host |-> Put(st.host, id, Watcher(relativeDir, "partials")),
                  list |-> Append(st.list, id)])
          ELSE WatchPartialsDirs(Tail(dirs), templateDirs, st)

\* the watchers setupFileWatchers creates: the host's and this._watchers after
setupFileWatchers(host, list) ==
  LET templateDirs == getTemplateDirectories
      partialsDirs == getPartialsDirectories
  IN WatchPartialsDirs(partialsDirs, templateDirs,
       WatchTemplateDirs(templateDirs, [host |-> host, list |-> list]))

\* how many watchers setupFileWatchers is about to create
WatchersNeeded ==
  Len(getTemplateDirectories)
    + Len(SelectSeq(getPartialsDirectories,
                    LAMBDA d : ~SeqIncludes(getTemplateDirectories, d)))

\* the glob `${relativeDir}/**/*.hbs` relative to the workspace root
Matches(w, path) ==
  /\ StartsWith(path, workspaceRoot \o "/" \o w.relativeDir \o "/")
  /\ EndsWith(path, ".hbs")

\* the live watchers a file event on path is reported by, in creation order
MatchingWatchers(path) ==
  SelectSeq([i \in 1..MaxWatchers |-> i],
            LAMBDA id : id \in DOMAIN hostWatchers /\ Matches(hostWatchers[id], path))

-----------------------------------------------------------------------------
(* The provider's operations and the host's callbacks, one action each *)

Op(op, name, data, n) == [op |-> op, name |-> name, data |-> data, n |-> n]

CountCommand(box, command) == Len(SelectSeq(box, LAMBDA m : m.command = command))

FreePanelIds == (1..MaxPanels) \ panels

\* the template names the webview asks for
ReqNames == {"a", "b", "g", "components/c", "missing"}

\* mutant: createOrShow without its guard on this._panel
createOrShow_NoGuard ==
  /\ FreePanelIds # {}
  /\ WatchersNeeded <= Cardinality(FreeWatcherIds)
  /\ \E p \in {CHOOSE i \in FreePanelIds : \A j \in FreePanelIds : i <= j},
        w \in {setupFileWatchers(hostWatchers, watchers)} :
        /\ panel' = p
        /\ panels' = panels \cup {p}
        /\ partials' = registerPartialsTable(partials)
        /\ outbox' = registerPartialsPost(<<>>, p)
        /\ handlers' = [handlers EXCEPT ![p] = @ + 1]
        /\ hostWatchers' = w.host
        /\ watchers' = w.list
        /\ last' = Op("createOrShow", "create", "", p)
  /\ notes' = <<>>
  /\ UNCHANGED faults
  /\ order' = <<>>
  /\ UNCHANGED <<config, fs, cache, helpers, loads, reload, events, tally, sent>>

\* createOrShow, lines 20-99 (the callbacks it installs are actions below)
createOrShow ==
  IF panel # 0
  THEN /\ outbox' = <<>>
       /\ notes' = <<>>
       /\ UNCHANGED faults
       /\ order' = <<>>
       /\ last' = Op("createOrShow", "reveal", "", panel)
       /\ UNCHANGED <<config, fs, panel, panels, handlers, watchers, hostWatchers,
                      cache, partials, helpers, loads, reload, events, tally, sent>>
  ELSE /\ FreePanelIds # {}
       /\ WatchersNeeded <= Cardinality(FreeWatcherIds)
       /\ \E p \in {CHOOSE i \in FreePanelIds : \A j \in FreePanelIds : i <= j},
             w \in {setupFileWatchers(hostWatchers, watchers)} :
             /\ panel' = p
             /\ panels' = panels \cup {p}
             /\ partials' = registerPartialsTable(partials)
             /\ outbox' = registerPartialsPost(<<>>, p)
             /\ handlers' = [handlers EXCEPT ![p] = @ + 1]
             /\ hostWatchers' = w.host
             /\ watchers' = w.list
             /\ last' = Op("createOrShow", "create", "", p)
       /\ notes' = <<>>
       /\ UNCHANGED faults
       /\ order' = <<>>
       /\ UNCHANGED <<config, fs, cache, helpers, loads, reload, events, tally, sent>>

\* mutant: the callback forgets the panel and the list, not the watchers
onDidDispose_KeepsWatchers(p) ==
  /\ p \in panels
  /\ panels' = panels \ {p}
  /\ handlers' = [handlers EXCEPT ![p] = 0]
  /\ panel' = 0
  /\ watchers' = <<>>
  /\ outbox' = <<>>
  /\ notes' = <<>>
  /\ UNCHANGED faults
  /\ order' = <<>>
  /\ last' = Op("onDidDispose", "", "", Len(watchers))
  /\ UNCHANGED <<config, fs, hostWatchers, events, cache, partials, helpers, loads,
                 reload, tally, sent>>

\* the user closes panel p: the host disposes it and runs the onDidDispose
\* callback of lines 94-98; a disposed watcher reports nothing more
onDidDispose(p) ==
  /\ p \in panels
  /\ panels' = panels \ {p}
  /\ handlers' = [handlers EXCEPT ![p] = 0]
  /\ panel' = 0
  /\ hostWatchers' = [id \in (DOMAIN hostWatchers) \ Range(watchers) |-> hostWatchers[id]]
  /\ watchers' = <<>>
  /\ events' = SelectSeq(events, LAMBDA e : e.id \notin Range(watchers))
  /\ outbox' = <<>>
  /\ notes' = <<>>
  /\ UNCHANGED faults
  /\ order' = <<>>
  /\ last' = Op("onDidDispose", "", "", Len(watchers))
  /\ UNCHANGED <<config, fs, cache, partials, helpers, loads, reload, tally, sent>>

\* the public dispose(), lines 469-471
dispose ==
  /\ hostWatchers' = [id \in (DOMAIN hostWatchers) \ Range(watchers) |-> hostWatchers[id]]
  /\ events' = SelectSeq(events, LAMBDA e : e.id \notin Range(watchers))
  /\ outbox' = <<>>
  /\ notes' = <<>>
  /\ UNCHANGED faults
  /\ order' = <<>>
  /\ last' = Op("dispose", "", "", Len(watchers))
  /\ UNCHANGED <<config, fs, panel, panels, handlers, watchers, cache, partials,
                 helpers, loads, reload, tally, sent>>

\* a message reaches the handler of lines 42-88 only while its panel exists
Receiving == panel # 0 /\ panel \in panels /\ handlers[panel] > 0

\* case "getTemplates", lines 45-51
OnGetTemplates ==
  /\ Receiving
  /\ outbox' = <<Msg("templates", getAvailableTemplates)>>
  /\ notes' = <<>>
  /\ UNCHANGED faults
  /\ order' = <<>>
  /\ last' = Op("getTemplates", "", "", 0)
  /\ UNCHANGED <<config, fs, panel, panels, handlers, watchers, hostWatchers, cache,
                 partials, helpers, loads, reload, events, tally, sent>>

\* an entry of the history `order`: a cache write or a message posted, with
\* the cache as it is once the write is done or while the message is posted
Effect(effect, what, map) == [effect |-> effect, what |-> what, cache |-> map]

\* mutant: the data is saved before the template is rendered
OnRenderTemplate_SaveFirst(templateName, data) ==
  /\ Receiving
  /\ \E r \in {renderTemplate(templateName, OrEmptyObject(data), <<>>)},
        saved \in {saveTemplateData(cache, templateName, OrEmptyObject(data))} :
        /\ partials' = r.partials
        /\ cache' = saved
        /\ IF r.result.ok
           THEN /\ outbox' = Append(r.box, Msg("rendered", r.result.value))
                /\ order' = <<Effect("save", getTemplateDataKey(templateName), saved),
                              Effect("post", "rendered", saved)>>
                /\ sent' = [sent EXCEPT ![templateName] = data]
           ELSE /\ outbox' = Append(r.box, Msg("error", r.result.value))
                /\ order' = <<Effect("save", getTemplateDataKey(templateName), saved),
                              Effect("post", "error", saved)>>
                /\ UNCHANGED sent
  /\ notes' = <<>>
  /\ UNCHANGED faults
  /\ last' = Op("renderTemplate", templateName, data, 0)
  /\ UNCHANGED <<config, fs, panel, panels, handlers, watchers, hostWatchers,
                 helpers, loads, reload, events, tally>>

\* mutant: a failure of the render is not caught and nothing is posted for it
OnRenderTemplate_NoCatch(templateName, data) ==
  /\ Receiving
  /\ \E r \in {renderTemplate(templateName, OrEmptyObject(data), <<>>)},
        saved \in {saveTemplateData(cache, templateName, OrEmptyObject(data))} :
        /\ partials' = r.partials
        /\ IF r.result.ok
           THEN /\ cache' = saved
                /\ outbox' = Append(r.box, Msg("rendered", r.result.value))
                /\ order' = <<Effect("save", getTemplateDataKey(templateName), saved),
                              Effect("post", "rendered", saved)>>
                /\ sent' = [sent EXCEPT ![templateName] = data]
           ELSE /\ outbox' = r.box
                /\ order' = <<>>
                /\ UNCHANGED <<cache, sent>>
  /\ notes' = <<>>
  /\ UNCHANGED faults
  /\ last' = Op("renderTemplate", templateName, data, 0)
  /\ UNCHANGED <<config, fs, panel, panels, handlers, watchers, hostWatchers,
                 helpers, loads, reload, events, tally>>

\* mutant: the rendered message is posted before the data is saved
OnRenderTemplate_PostFirst(templateName, data) ==
  /\ Receiving
  /\ \E r \in {renderTemplate(templateName, OrEmptyObject(data), <<>>)},
        saved \in {saveTemplateData(cache, templateName, OrEmptyObject(data))} :
        /\ partials' = r.partials
        /\ IF r.result.ok
           THEN /\ outbox' = Append(r.box, Msg("rendered", r.result.value))
                /\ cache' = saved
                /\ order' = <<Effect("post", "rendered", cache),
                              Effect("save", getTemplateDataKey(templateName), saved)>>
                /\ sent' = [sent EXCEPT ![templateName] = data]
           ELSE /\ outbox' = Append(r.box, Msg("error", r.result.value))
                /\ order' = <<Effect("post", "error", cache)>>
                /\ UNCHANGED <<cache, sent>>
  /\ notes' = <<>>
  /\ UNCHANGED faults
  /\ last' = Op("renderTemplate", templateName, data, 0)
  /\ UNCHANGED <<config, fs, panel, panels, handlers, watchers, hostWatchers,
                 helpers, loads, reload, events, tally>>

\* case "renderTemplate", lines 52-70, for message {templateName, data}: the
\* render (line 54), then the save (line 59), then the rendered message
\* (line 60); a throw of the render goes to the catch (line 64)
OnRenderTemplate(templateName, data) ==
  /\ Receiving
  /\ \E r \in {renderTemplate(templateName, OrEmptyObject(data), <<>>)},
        saved \in {saveTemplateData(cache, templateName, OrEmptyObject(data))} :
        /\ partials' = r.partials
        /\ IF r.result.ok
           THEN /\ cache' = saved
                /\ outbox' = Append(r.box, Msg("rendered", r.result.value))
                /\ order' = <<Effect("save", getTemplateDataKey(templateName), saved),
                              Effect("post", "rendered", saved)>>
                /\ sent' = [sent EXCEPT ![templateName] = data]
           ELSE /\ outbox' = Append(r.box, Msg("error", r.result.value))
                /\ order' = <<Effect("post", "error", cache)>>
                /\ UNCHANGED <<cache, sent>>
  /\ notes' = <<>>
  /\ UNCHANGED faults
  /\ last' = Op("renderTemplate", templateName, data, 0)
  /\ UNCHANGED <<config, fs, panel, panels, handlers, watchers, hostWatchers,
                 helpers, loads, reload, events, tally>>

\* case "getTemplateData", lines 71-77
OnGetTemplateData(templateName) ==
  /\ Receiving
  /\ outbox' = <<Msg("templateData", getTemplateData(cache, templateName))>>
  /\ order' = <<Effect("post", "templateData", cache)>>
  /\ notes' = <<>>
  /\ UNCHANGED faults
  /\ last' = Op("getTemplateData", templateName, "", 0)
  /\ UNCHANGED <<config, fs, panel, panels, handlers, watchers, hostWatchers, cache,
                 partials, helpers, loads, reload, events, tally, sent>>

\* case "clearTemplateData", lines 78-83
OnClearTemplateData(templateName) ==
  /\ Receiving
  /\ cache' = clearTemplateData(cache, templateName)
  /\ outbox' = <<Msg("templateDataCleared", "")>>
  /\ order' = <<Effect("delete", getTemplateDataKey(templateName), cache'),
                Effect("post", "templateDataCleared", cache')>>
  /\ sent' = [sent EXCEPT ![templateName] = "cleared"]
  /\ notes' = <<>>
  /\ UNCHANGED faults
  /\ last' = Op("clearTemplateData", templateName, "", 0)
  /\ UNCHANGED <<config, fs, panel, panels, handlers, watchers, hostWatchers,
                 partials, helpers, loads, reload, events, tally>>

\* command handlebars-preview.refreshPreview, lines 519-524
RefreshPreview ==
  /\ outbox' = refreshTemplates(<<>>, panel)
  /\ notes' = <<>>
  /\ UNCHANGED faults
  /\ order' = <<>>
  /\ last' = Op("refreshPreview", "", "", 0)
  /\ UNCHANGED <<config, fs, panel, panels, handlers, watchers, hostWatchers, cache,
                 partials, helpers, loads, reload, events, tally, sent>>

\* reloadHelpers, lines 246-252 (command handlebars-preview.reloadHelpers):
\* it returns with the load it started still suspended
reloadHelpers ==
  /\ loadCustomHelpersStart = "" \/ IdleLoads # {}
  /\ \E r \in {registerHelpers} :
        /\ loads' = r.loads
        /\ reload' = [load |-> r.slot, posted |-> panel # 0, registered |-> FALSE]
        /\ last' = Op("reloadHelpers", "", "", r.slot)
  /\ notes' = <<Note("info", "Handlebars Live Preview: Reloading helpers...")>>
  /\ UNCHANGED faults
  /\ order' = <<>>
  /\ outbox' = autoRerender(<<>>, panel)
  /\ UNCHANGED <<config, fs, panel, panels, handlers, watchers, hostWatchers, cache,
                 partials, helpers, events, tally, sent>>

\* the import of suspended load i resolves or rejects, and loadCustomHelpers
\* runs from line 186 to its end
LoadResumes(i) ==
  /\ loads[i] # ""
  /\ \E r \in {loadCustomHelpersResume(loads[i], helpers)} :
        /\ helpers' = r.table
        /\ notes' = <<r.note>>
        /\ UNCHANGED faults
        /\ order' = <<>>
        /\ last' = Op("loadCustomHelpers", r.note.level, registerHelpersCatch(r.promise), i)
  /\ loads' = [loads EXCEPT ![i] = ""]
  /\ reload' = IF reload.load = i THEN [reload EXCEPT !.registered = TRUE] ELSE reload
  /\ outbox' = <<>>
  /\ UNCHANGED <<config, fs, panel, panels, handlers, watchers, hostWatchers, cache,
                 partials, events, tally, sent>>

\* command handlebars-preview.clearData, lines 533-540
ClearData ==
  /\ outbox' = Post(<<>>, panel, Msg("clearAllData", ""))
  /\ notes' = <<>>
  /\ UNCHANGED faults
  /\ order' = <<>>
  /\ last' = Op("clearData", "", "", 0)
  /\ UNCHANGED <<config, fs, panel, panels, handlers, watchers, hostWatchers, cache,
                 partials, helpers, loads, reload, events, tally, sent>>

-----------------------------------------------------------------------------
(* The file system changes and the watchers report it *)

\* a file is changed, created or deleted on disk; the host queues one event
\* for every live watcher whose pattern matches the path
FileEvent(path, kind, content) ==
  /\ events = <<>>
  /\ CASE kind = "change" -> fs[path] # Absent /\ content # fs[path]
                             /\ fs' = [fs EXCEPT ![path] = content]
       [] kind = "create" -> fs[path] = Absent /\ fs' = [fs EXCEPT ![path] = content]
       [] kind = "delete" -> fs[path] # Absent /\ fs' = [fs EXCEPT ![path] = Absent]
  /\ \E ids \in {MatchingWatchers(path)} :
        /\ events' = [k \in 1..Len(ids) |-> [id |-> ids[k], kind |-> kind, path |-> path]]
        /\ tally' = [kind |-> kind, path |-> path, queued |-> Len(ids),
                     matched |-> Len(SelectSeq(ids,
                                   LAMBDA id : hostWatchers[id].kind = "template")),
                     delivered |-> 0, templates |-> 0, autoRerender |-> 0]
  /\ outbox' = <<>>
  /\ notes' = <<>>
  /\ UNCHANGED faults
  /\ order' = <<>>
  /\ last' = Op("fileEvent", kind, path, 0)
  /\ UNCHANGED <<config, panel, panels, handlers, watchers, hostWatchers, cache,
                 partials, helpers, loads, reload, sent>>

\* mutant: every event of a template directory's watcher also re-renders
WatcherCallback_AlwaysRerender(kind, event, p) ==
  IF kind = "template"
  THEN autoRerender(refreshTemplates(registerPartialsPost(<<>>, p), p), p)
  ELSE registerPartialsPost(<<>>, p)

\* mutant: a partials directory's watcher also refreshes the template list
WatcherCallback_PartialsRefresh(kind, event, p) ==
  LET listed == refreshTemplates(registerPartialsPost(<<>>, p), p)
  IN IF kind = "template" /\ event = "change" THEN autoRerender(listed, p) ELSE listed

\* the callbacks of lines 320-334 (a template directory's watcher) and of
\* lines 350-360 (a partials directory's watcher): the messages posted
WatcherCallback(kind, event, p) ==
  IF kind = "template"
  THEN LET listed == refreshTemplates(registerPartialsPost(<<>>, p), p)
       IN IF event = "change" THEN autoRerender(listed, p) ELSE listed
  ELSE registerPartialsPost(<<>>, p)

\* the host delivers the next queued watcher event
Deliver ==
  /\ events # <<>>
  /\ \E e \in {Head(events)} :
     \E w \in {hostWatchers[e.id]} :
     \E box \in {WatcherCallback(w.kind, e.kind, panel)} :
        /\ partials' = registerPartialsTable(partials)
        /\ outbox' = box
        /\ tally' = [tally EXCEPT !.delivered = @ + 1,
                                  !.templates = @ + CountCommand(box, "templates"),
                                  !.autoRerender = @ + CountCommand(box, "autoRerender")]
        /\ last' = Op("watch:" \o e.kind, w.kind, e.path, e.id)
  /\ events' = Tail(events)
  /\ notes' = <<>>
  /\ UNCHANGED faults
  /\ order' = <<>>
  /\ UNCHANGED <<config, fs, panel, panels, handlers, watchers, hostWatchers, cache,
                 helpers, loads, reload, sent>>

\* the helpers file is edited; no watcher covers it
EditHelpers(content) ==
  /\ fs[HelpersFile] # content
  /\ fs' = [fs EXCEPT ![HelpersFile] = content]
  /\ outbox' = <<>>
  /\ notes' = <<>>
  /\ UNCHANGED faults
  /\ order' = <<>>
  /\ last' = Op("fileEvent", "change", HelpersFile, 0)
  /\ UNCHANGED <<config, panel, panels, handlers, watchers, hostWatchers, cache,
                 partials, helpers, loads, reload, events, tally, sent>>

\* a read of path starts to fail: a directory loses its read permission, a
\* file entry becomes a dangling link
ReadFails(path) ==
  /\ path \notin faults
  /\ faults' = faults \cup {path}
  /\ outbox' = <<>>
  /\ notes' = <<>>
  /\ order' = <<>>
  /\ last' = Op("fault", "fails", path, 0)
  /\ UNCHANGED <<config, fs, panel, panels, handlers, watchers, hostWatchers, cache,
                 partials, helpers, loads, reload, events, tally, sent>>

\* the read of path works again
ReadRecovers(path) ==
  /\ path \in faults
  /\ faults' = faults \ {path}
  /\ outbox' = <<>>
  /\ notes' = <<>>
  /\ order' = <<>>
  /\ last' = Op("fault", "recovers", path, 0)
  /\ UNCHANGED <<config, fs, panel, panels, handlers, watchers, hostWatchers, cache,
                 partials, helpers, loads, reload, events, tally, sent>>

-----------------------------------------------------------------------------
(* Activation *)

Settings(templateDirectories, partialsDirectories, customHelpersFile) ==
  [templateDirectories |-> templateDirectories,
   partialsDirectories |-> partialsDirectories,
   customHelpersFile |-> customHelpersFile]

\* activate, lines 487-509: the advisory shown when no configured directory exists
ActivateNotes ==
  LET templateDirs == IF config.templateDirectories.set
                      THEN config.templateDirectories.value ELSE <<>>
      hasConfiguredDirs == \E i \in 1..Len(templateDirs) :
                              existsSync(ResolvePath(templateDirs[i]))
  IN IF hasConfiguredDirs THEN <<>>
     ELSE <<Note("info", "Handlebars Live Preview: No template directories found. Please configure 'handlebarsPreview.templateDirectories' in settings.")>>

\* the state when activate returns, for settings c and disk content files: the
\* provider is constructed (lines 9-18) and its constructor has started the
\* first helper load
Activated(c, files) ==
  /\ config = c
  /\ fs = files
  /\ panel = 0
  /\ panels = {}
  /\ handlers = [p \in 1..MaxPanels |-> 0]
  /\ watchers = <<>>
  /\ hostWatchers = EmptyMap
  /\ cache = EmptyMap
  /\ partials = EmptyMap
  /\ helpers = EmptyMap
  /\ loads = [i \in 1..MaxLoads |-> IF i = 1 THEN loadCustomHelpersStart ELSE ""]
  /\ reload = [load |-> 0, posted |-> FALSE, registered |-> FALSE]
  /\ events = <<>>
  /\ tally = [kind |-> "", path |-> "", queued |-> 0, matched |-> 0,
              delivered |-> 0, templates |-> 0, autoRerender |-> 0]
  /\ outbox = <<>>
  /\ notes = ActivateNotes
  /\ last = Op("activate", "", "", 0)
  /\ sent = [n \in ReqNames |-> "none"]
  /\ order = <<>>
  /\ faults = {}

\* a disk with the files of present at version v1 and the helpers file as given
Disk(present, helpersContent) ==
  [f \in FilePaths |-> IF f = HelpersFile THEN helpersContent
                       ELSE IF f \in present THEN "v1" ELSE Absent]

-----------------------------------------------------------------------------
(* Specification of the data store and the render requests *)

DataSettings == Settings(Set(<<"views">>), Set(<<"p">>), "")

DataDisk ==
  Disk({"/w/views/a.hbs", "/w/views/b.hbs", "/w/views/components/c.hbs",
        "/w/p/card.hbs", "/w/views/n.txt"}, Absent)

InitData == Activated(DataSettings, DataDisk)

OpenPreview == createOrShow

ClosePanel == \E p \in panels : onDidDispose(p)

\* the requests the webview makes in this specification
DataNames == {"a", "b", "missing"}
DataSent == {"0", "{}", "{a:1}"}

RenderRequest == \E n \in DataNames, d \in DataSent : OnRenderTemplate(n, d)

GetDataRequest == \E n \in DataNames : OnGetTemplateData(n)

ClearRequest == \E n \in DataNames : OnClearTemplateData(n)

\* template a.hbs is edited (possibly into a text that does not compile),
\* deleted or created again
TemplateEdited ==
  \E kind \in {"change", "create", "delete"}, content \in {"v1", "bad"} :
    FileEvent("/w/views/a.hbs", kind, content)

NextData ==
  \/ OpenPreview
  \/ ClosePanel
  \/ RenderRequest
  \/ GetDataRequest
  \/ ClearRequest
  \/ ClearData
  \/ TemplateEdited
  \/ Deliver

SpecData == InitData /\ [][NextData]_vars

-----------------------------------------------------------------------------
(* Specification of the panel and the file watchers *)

\* the settings tried: the defaults; a separate partials directory; a template
\* directory listed twice; nested template directories; a partials directory
\* inside a template directory; an absolute and a missing directory
WatchSettings ==
  {Settings(Unset, Unset, ""),
   Settings(Set(<<"views">>), Set(<<"p">>), ""),
   Settings(Set(<<"views", "views">>), Unset, ""),
   Settings(Set(<<"views", "views/components">>), Unset, ""),
   Settings(Set(<<"views">>), Set(<<"views/components", "views">>), ""),
   Settings(Set(<<"/w/views", "gone">>), Set(<<"p">>), "")}

WatchDisk ==
  Disk({"/w/views/a.hbs", "/w/views/components/c.hbs", "/w/p/card.hbs",
        "/w/views/n.txt"}, Absent)

InitWatch == \E c \in WatchSettings : Activated(c, WatchDisk)

\* the files that change: one under the template directories (and under the
\* nested one), one under the separate partials directory
WatchedFiles == {"/w/views/components/c.hbs", "/w/p/card.hbs"}

\* a template or partial file is edited, created or deleted
HbsFileEvent ==
  \E path \in WatchedFiles, kind \in {"change", "create", "delete"},
     content \in {"v1", "v2"} :
    FileEvent(path, kind, content)

NextWatch ==
  \/ OpenPreview
  \/ ClosePanel
  \/ dispose
  \/ OnGetTemplates
  \/ RefreshPreview
  \/ HbsFileEvent
  \/ Deliver

SpecWatch == InitWatch /\ [][NextWatch]_vars

-----------------------------------------------------------------------------
(* Specification of the helper loads *)

HelperSettings == Settings(Set(<<"views">>), Set(<<"p">>), "h.js")

HelperDisk == Disk({"/w/views/g.hbs", "/w/p/card.hbs"}, "greet=f1")

InitHelpers == Activated(HelperSettings, HelperDisk)

\* the import of some suspended load settles
LoadSettles == \E i \in 1..MaxLoads : LoadResumes(i)

\* the body of the helper is edited
HelpersEdited == \E content \in HelperContents : EditHelpers(content)

\* the webview asks for the template that calls the helper
RenderHelperTemplate == OnRenderTemplate("g", "{a:1}")

NextHelpers ==
  \/ OpenPreview
  \/ ClosePanel
  \/ reloadHelpers
  \/ LoadSettles
  \/ HelpersEdited
  \/ RenderHelperTemplate

SpecHelpers == InitHelpers /\ [][NextHelpers]_vars

-----------------------------------------------------------------------------
(* Specification of the helper loads over every shape of export *)

\* the helpers file setting: a file of the workspace, none, a missing file
ExportSettings ==
  {Settings(Set(<<"views">>), Set(<<"p">>), f) : f \in {"h.js", "", "gone.js"}}

InitExports ==
  \E c \in ExportSettings, content \in ExportShapes \cup {Absent} :
    Activated(c, Disk({"/w/views/g.hbs", "/w/p/card.hbs"}, content))

\* the helpers file is rewritten with another export, or deleted
ExportsEdited == \E content \in ExportShapes \cup {Absent} : EditHelpers(content)

NextExports ==
  \/ reloadHelpers
  \/ LoadSettles
  \/ ExportsEdited

SpecExports == InitExports /\ [][NextExports]_vars

-----------------------------------------------------------------------------
(* Specification of the renders while the partial files change *)

RenderSettings == Settings(Set(<<"views">>), Set(<<"p">>), "")

RenderDisk ==
  Disk({"/w/views/a.hbs", "/w/views/b.hbs", "/w/views/components/c.hbs",
        "/w/p/card.hbs"}, Absent)

InitRender == Activated(RenderSettings, RenderDisk)

\* the partial file is edited (possibly into a text that does not compile),
\* deleted or created again, with the panel open or closed
PartialEdited ==
  \E kind \in {"change", "create", "delete"}, content \in Contents :
    FileEvent("/w/p/card.hbs", kind, content)

\* the webview asks for a template that includes the partial, for one that
\* does not, and for a name the filter keeps out of the list
RenderNames == {"a", "b", "components/c"}

RenderWithPartials == \E n \in RenderNames : OnRenderTemplate(n, "{a:1}")

NextRender ==
  \/ OpenPreview
  \/ ClosePanel
  \/ RenderWithPartials
  \/ PartialEdited
  \/ Deliver

SpecRender == InitRender /\ [][NextRender]_vars

-----------------------------------------------------------------------------
(* Specification of the data store among all the other operations *)

FrameSettings == Settings(Set(<<"views">>), Set(<<"p">>), "h.js")

FrameDisk == Disk({"/w/views/a.hbs", "/w/views/b.hbs", "/w/p/card.hbs"}, "greet=f1")

InitFrame == Activated(FrameSettings, FrameDisk)

FrameNames == {"a", "b"}

FrameRender == \E n \in FrameNames, d \in {"{a:1}", "{a:2}"} : OnRenderTemplate(n, d)

FrameGetData == \E n \in FrameNames : OnGetTemplateData(n)

FrameClear == \E n \in FrameNames : OnClearTemplateData(n)

\* template a.hbs is edited into a text that does not compile, and back
FrameEdited ==
  \E content \in {"v1", "bad"} : FileEvent("/w/views/a.hbs", "change", content)

NextFrame ==
  \/ OpenPreview
  \/ ClosePanel
  \/ FrameRender
  \/ FrameGetData
  \/ FrameClear
  \/ ClearData
  \/ RefreshPreview
  \/ reloadHelpers
  \/ LoadSettles
  \/ FrameEdited
  \/ Deliver

SpecFrame == InitFrame /\ [][NextFrame]_vars

-----------------------------------------------------------------------------
(* Specification of the template scan while reads fail *)

\* two template directories
ScanSettings == Settings(Set(<<"views", "p">>), Unset, "")

ScanDisk ==
  Disk({"/w/views/a.hbs", "/w/views/b.hbs", "/w/views/g.hbs",
        "/w/views/components/c.hbs", "/w/views/n.txt", "/w/p/card.hbs"}, Absent)

InitScan == Activated(ScanSettings, ScanDisk)

\* the paths whose read can fail: the two roots, a subdirectory, file entries
FaultPaths ==
  {"/w/views", "/w/views/components", "/w/p", "/w/views/a.hbs", "/w/views/b.hbs",
   "/w/views/g.hbs", "/w/p/card.hbs"}

ScanFails == \E path \in FaultPaths : ReadFails(path)

ScanRecovers == \E path \in FaultPaths : ReadRecovers(path)

NextScan ==
  \/ OpenPreview
  \/ ClosePanel
  \/ OnGetTemplates
  \/ RefreshPreview
  \/ ScanFails
  \/ ScanRecovers

SpecScan == InitScan /\ [][NextScan]_vars

-----------------------------------------------------------------------------
(* Properties of the data store and the render requests, under SpecData *)

\* the step is the handling of a renderTemplate(n, d) request (the first
\* conjunct is implied by the second and only spares its evaluation)
RenderStep(n, d) == last' = Op("renderTemplate", n, d, 0) /\ OnRenderTemplate(n, d)

\* n matches no record of the current template scan
NotInScan(n) == FindTemplate(getAvailableTemplates, n) = <<>>

\* C2: a renderTemplate request for a name that matches no record of the
\* current template scan is answered by the single message error 'Template
\* not found: <name>', posts no rendered message and leaves the data cache as
\* it was, whatever its data
C2_NotFoundLeavesCache ==
  [][\A n \in DataNames, d \in DataSent :
       (RenderStep(n, d) /\ NotInScan(n))
         => /\ outbox' = <<Msg("error", "Template not found: " \o n)>>
            /\ cache' = cache]_vars

\* C2 witness: a request for an unknown name was refused while the cache held
\* saved data
C2_Witness ==
  /\ last.op = "renderTemplate"
  /\ last.name = "missing"
  /\ outbox = <<Msg("error", "Template not found: missing")>>
  /\ getTemplateDataKey("a") \in DOMAIN cache

\* the answer of the last request, a getTemplateData request
Answered(n, data) ==
  last.op = "getTemplateData" /\ last.name = n /\ outbox = <<Msg("templateData", data)>>

\* C3 as claimed: after a successful renderTemplate(n, d), a getTemplateData(n)
\* request with no render or clear of n in between returns d, for every d
C3_RoundTripEveryValue ==
  \A n \in ReqNames :
    (last.op = "getTemplateData" /\ last.name = n /\ sent[n] \notin {"none", "cleared"})
      => Answered(n, sent[n])

\* C3 as amended: it returns d when d is truthy and the empty object when d is
\* falsy (the handler saves `message.data || {}`)
C3_RoundTrip ==
  \A n \in ReqNames :
    (last.op = "getTemplateData" /\ last.name = n /\ sent[n] \notin {"none", "cleared"})
      => Answered(n, IF Falsy(sent[n]) THEN "{}" ELSE sent[n])

\* C3 witness: the data of a successful render came back, on a later open of
\* the panel or the same
C3_Witness == sent["a"] = "{a:1}" /\ Answered("a", "{a:1}")

\* the last request was a renderTemplate request answered with `command`
RenderAnswered(command) ==
  last.op = "renderTemplate" /\ outbox[Len(outbox)].command = command

\* C4 as claimed: after every renderTemplate(n, d) request, whatever its
\* outcome, the cache entry of n holds d
C4_EveryRenderSaves ==
  last.op = "renderTemplate"
    => /\ getTemplateDataKey(last.name) \in DOMAIN cache
       /\ cache[getTemplateDataKey(last.name)] = last.data

\* C4 as amended: after a successful request the entry of n holds d, or the
\* empty object when d is falsy; a failed request leaves the cache as it was
C4_SuccessfulRenderSaves ==
  /\ [](RenderAnswered("rendered")
          => /\ getTemplateDataKey(last.name) \in DOMAIN cache
             /\ cache[getTemplateDataKey(last.name)] = OrEmptyObject(last.data))
  /\ [][\A n \in DataNames, d \in DataSent :
          (RenderStep(n, d) /\ outbox'[Len(outbox')].command = "error")
            => cache' = cache]_vars

\* C4 witness: a successful render with falsy data wrote the empty object for
\* a while another name kept its entry
C4_Witness ==
  /\ RenderAnswered("rendered")
  /\ last.name = "a"
  /\ last.data = "0"
  /\ cache[getTemplateDataKey("a")] = "{}"
  /\ getTemplateDataKey("b") \in DOMAIN cache

\* C9 as claimed: once the clear-data command has run, getTemplateData returns
\* the empty object for every template name
C9_ClearDataClearsAll ==
  last.op = "clearData" => \A n \in ReqNames : getTemplateData(cache, n) = "{}"

\* C10: a getTemplateData(n) request after a clearTemplateData(n) request, with
\* no successful render of n in between, returns the empty object, and the
\* clear request is answered by the single message templateDataCleared
C10_ClearThenGet ==
  /\ \A n \in ReqNames :
       (last.op = "getTemplateData" /\ last.name = n /\ sent[n] = "cleared")
         => Answered(n, "{}")
  /\ last.op = "clearTemplateData" => outbox = <<Msg("templateDataCleared", "")>>

\* C10 witness: the entry of a was cleared while b kept its data, and a read
\* of a came back empty
C10_Witness ==
  /\ sent["a"] = "cleared"
  /\ Answered("a", "{}")
  /\ getTemplateDataKey("b") \in DOMAIN cache

-----------------------------------------------------------------------------
(* Properties of the panel and the file watchers, under SpecWatch *)

RECURSIVE Commands(_)
\* the commands of the messages of box, in the order posted
Commands(box) ==
  IF box = <<>> THEN <<>> ELSE <<Head(box).command>> \o Commands(Tail(box))

\* the last step delivered an event to a watcher of the given kind
Delivered(kind) ==
  last.op \in {"watch:change", "watch:create", "watch:delete"} /\ last.name = kind

\* every watcher the latest file event was queued for has been called
Drained == events = <<>> /\ tally.kind # "" /\ tally.delivered = tally.queued

\* C5 as claimed: a change of a template file under a watched template
\* directory causes exactly one templates message and exactly one autoRerender
\* message, whatever the configured directories; a create or delete causes a
\* templates message and no autoRerender message
C5_OneRefreshPerFileEvent ==
  (Drained /\ tally.matched >= 1)
    => IF tally.kind = "change"
       THEN tally.templates = 1 /\ tally.autoRerender = 1
       ELSE tally.templates >= 1 /\ tally.autoRerender = 0

\* C5 as amended: every change event a template directory's watcher reports
\* posts partialsRegistered, one templates message and one autoRerender
\* message, every create or delete event it reports posts partialsRegistered
\* and one templates message; so a file event covered by k template watchers
\* (k > 1 for nested or repeated directories) causes k templates messages,
\* and k autoRerender messages if it is a change and none otherwise
C5_OneRefreshPerWatcherEvent ==
  /\ Delivered("template")
       => Commands(outbox) =
            IF last.op = "watch:change"
            THEN <<"partialsRegistered", "templates", "autoRerender">>
            ELSE <<"partialsRegistered", "templates">>
  /\ Drained
       => /\ tally.templates = tally.matched
          /\ tally.autoRerender = IF tally.kind = "change" THEN tally.matched ELSE 0

\* C5 witness: a change of a file covered by two template watchers has been
\* reported by both
C5_Witness ==
  /\ Drained
  /\ tally.kind = "change"
  /\ tally.matched = 2
  /\ tally.templates = 2
  /\ tally.autoRerender = 2

\* C6 as claimed: an event reported by the watcher of a partials directory
\* that is no template directory posts a templates message and no autoRerender
C6_PartialsWatchRefreshesList ==
  Delivered("partials")
    => /\ CountCommand(outbox, "templates") >= 1
       /\ CountCommand(outbox, "autoRerender") = 0

\* C6 as amended: such an event re-registers the partials, so that the table
\* holds the file's present content under both of its names, and posts
\* partialsRegistered and nothing else: no templates and no autoRerender
C6_PartialsWatchOnlyRegisters ==
  Delivered("partials")
    => /\ Commands(outbox) = <<"partialsRegistered">>
       /\ (fs["/w/p/card.hbs"] # Absent /\ last.data = "/w/p/card.hbs")
            => /\ "card" \in DOMAIN partials /\ partials["card"] = fs["/w/p/card.hbs"]
               /\ "p/card" \in DOMAIN partials
               /\ partials["p/card"] = fs["/w/p/card.hbs"]

\* C6 witness: the partials directory's watcher reported an edit of card.hbs
C6_Witness ==
  /\ Delivered("partials")
  /\ last.op = "watch:change"
  /\ last.data = "/w/p/card.hbs"
  /\ partials["card"] = "v2"
  /\ outbox = <<Msg("partialsRegistered", "")>>

\* C7: whenever no panel is open, no watcher is left undisposed and the
\* provider's list is empty; while a panel is open the only live watchers are
\* those of the list, which holds the watchers of this open and no others
C7_NoWatcherOutlivesPanel ==
  /\ (panel = 0 \/ panels = {}) => (DOMAIN hostWatchers = {} /\ watchers = <<>>)
  /\ panel # 0 => /\ DOMAIN hostWatchers \subseteq Range(watchers)
                  /\ Len(watchers) = WatchersNeeded

\* C7 witness: a panel with two watchers was closed after its watchers had
\* reported events
C7_Witness ==
  /\ last = Op("onDidDispose", "", "", 2)
  /\ panel = 0
  /\ DOMAIN hostWatchers = {}
  /\ tally.delivered >= 1

\* C8: at most one panel exists, with one message handler; createOrShow with a
\* panel open posts nothing and changes neither the panels, the handlers, the
\* watchers nor the partial table
C8_SinglePanel ==
  /\ [](/\ Cardinality(panels) <= 1
        /\ (panel # 0 => panels = {panel})
        /\ \A p \in 1..MaxPanels : handlers[p] <= 1)
  /\ [][(createOrShow /\ panel # 0)
          => /\ UNCHANGED <<panel, panels, handlers, watchers, hostWatchers, partials>>
             /\ outbox' = <<>>]_vars

\* C8 witness: createOrShow has just revealed the open panel, while the disk
\* holds an edit the partial table has not seen
C8_Witness ==
  /\ last = Op("createOrShow", "reveal", "", 1)
  /\ panels = {1}
  /\ \E f \in WatchedFiles : fs[f] = "v2" /\ events # <<>>

-----------------------------------------------------------------------------
(* Properties of the helper loads, under SpecHelpers *)

\* C1 as claimed: when reloadHelpers has posted its autoRerender to an open
\* panel and has started a load of the helpers file, that load has already
\* registered its helpers
C1_RerenderAfterRegistration ==
  (reload.posted /\ reload.load # 0) => reload.registered


\* the keys of the value a helpers file of the given content exports whose
\* values are functions
CallableKeys(content) ==
  LET exported == ExportedHelpers(ModuleOf(content))
  IN {exported.entries[k].name :
        k \in {j \in 1..Len(exported.entries) : exported.entries[j].value.type = "function"}}

\* the step is the resumption of a load whose import yields the module of content
LoadedStep(content) ==
  /\ fs[HelpersFile] = content
  /\ \E i \in 1..MaxLoads : loads[i] = HelpersFile /\ LoadResumes(i)

\* C11 as claimed: one load of a module that exports a mapping registers
\* exactly the keys whose values are callable and reports their count in a
\* success message (a warning when there are none); one load of a module that
\* exports a number, string, boolean, function or null, falsy or not, registers
\* no helper and shows an error, not a warning or a success message
C11_NonObjectExportIsError ==
  [][\A content \in ExportShapes \ {"throws"} :
       LoadedStep(content)
         => IF content \in NonObjectShapes
            THEN /\ helpers' = helpers
                 /\ Len(notes') = 1 /\ notes'[1].level = "error"
            ELSE /\ DOMAIN helpers' = DOMAIN helpers \cup CallableKeys(content)
                 /\ Len(notes') = 1
                 /\ notes'[1].level = IF CallableKeys(content) = {} THEN "warning"
                                      ELSE "info"]_vars

-----------------------------------------------------------------------------
(* Properties of the partial table *)

RECURSIVE BaseName(_)
\* the last component of a path
BaseName(path) ==
  IF Includes(path, "/")
  THEN BaseName(SubSeq(path, IndexOf(path, "/") + 1, Len(path)))
  ELSE path

\* the template-extension files under the directory root, present or not
FilesUnder(root) == {f \in HbsFiles : StartsWith(f, root \o "/")}

\* the two keys C12 names for file f under the partials directory root: its
\* path relative to root and its bare file name, both without the extension
KeysRelativeTo(root, f) ==
  {Replace(Replace(f, root \o "/", ""), ".hbs", ""), Replace(BaseName(f), ".hbs", "")}

\* C12 as claimed: partial registration stores every template-extension file
\* under a partials directory under its path relative to that directory and
\* under its bare file name, both without the extension, and under no other
\* key; no key carries the partials directory's own name as a prefix
C12_KeysRelativeToPartialsRoot ==
  LET roots == Range(getPartialsDirectories)
  IN /\ \A root \in roots : \A f \in FilesUnder(root) :
          (fs[f] # Absent /\ last.op = "createOrShow" /\ last.name = "create")
            => \A k \in KeysRelativeTo(root, f) :
                 k \in DOMAIN partials /\ partials[k] = fs[f]
     /\ DOMAIN partials \subseteq
          UNION {KeysRelativeTo(root, f) : root \in roots, f \in HbsFiles}
     /\ \A k \in DOMAIN partials : \A root \in roots :
          ~StartsWith(k, Replace(root, workspaceRoot \o "/", "") \o "/")

\* the template lists posted to the webview by the last step
TemplatesSent ==
  {outbox[i].payload : i \in {j \in 1..Len(outbox) : outbox[j].command = "templates"}}

\* no record of a posted list has a name that contains "components/"
NoComponentsListed ==
  \A list \in TemplatesSent : \A i \in 1..Len(list) : ~Includes(list[i].name, "components/")

\* the files on disk that the filter keeps out of the list: under a template
\* directory, with a name relative to it that contains "components/"
FilteredFiles ==
  {f \in HbsFiles :
     /\ fs[f] # Absent
     /\ \E d \in Range(getTemplateDirectories) :
          /\ StartsWith(f, d \o "/")
          /\ Includes(Replace(Replace(f, d \o "/", ""), ".hbs", ""), "components/")}

\* file f is in the partial table, with its present content, under its bare name
RegisteredAsPartial(f) ==
  LET fileName == Replace(BaseName(f), ".hbs", "")
  IN fileName \in DOMAIN partials /\ partials[fileName] = fs[f]

\* the last step ran registerPartials
RegisteredPartials ==
  \/ last.op = "createOrShow" /\ last.name = "create"
  \/ last.op \in {"watch:change", "watch:create", "watch:delete"}

\* C13 as claimed: no template list sent to the webview has a record whose
\* name contains "components/", and whenever a list is sent the files the
\* filter keeps out of it are registered as partials, for every configuration
C13_FilteredButRegistered ==
  /\ NoComponentsListed
  /\ TemplatesSent # {} => \A f \in FilteredFiles : RegisteredAsPartial(f)

\* C13 as amended: no list sent has such a record; partial registration
\* applies no filter on names, so every run of it registers each of those
\* files that lies under a partials directory (with the default settings, where
\* the partials directories are the template directories, all of them)
C13_FilteredFromListOnly ==
  /\ NoComponentsListed
  /\ RegisteredPartials
       => \A f \in FilteredFiles :
            (\E root \in Range(getPartialsDirectories) : StartsWith(f, root \o "/"))
              => RegisteredAsPartial(f)

\* C13 witness: after an edit of components/c.hbs a list without it was sent,
\* and the partial table holds the edited text
C13_Witness ==
  /\ last.op = "watch:change"
  /\ "/w/views/components/c.hbs" \in FilteredFiles
  /\ TemplatesSent # {}
  /\ \A list \in TemplatesSent :
       \A i \in 1..Len(list) : list[i].fullPath # "/w/views/components/c.hbs"
  /\ "c" \in DOMAIN partials /\ partials["c"] = "v2"

-----------------------------------------------------------------------------
(* Properties of the order of effects within a request, under SpecData *)

\* the positions of `order` at which the message `command` is posted
PostsOf(command) ==
  {i \in 1..Len(order) : order[i].effect = "post" /\ order[i].what = command}

\* at position i of `order` the cache entry of template name n holds value
HoldsAt(i, n, value) ==
  /\ getTemplateDataKey(n) \in DOMAIN order[i].cache
  /\ order[i].cache[getTemplateDataKey(n)] = value

\* C14 as claimed: when the rendered message of a renderTemplate(n, d) request
\* is posted, the cache entry of n already holds d, for every d; no rendered
\* message is posted without it
C14_SavedBeforeNotified ==
  /\ last.op = "renderTemplate"
       => \A i \in PostsOf("rendered") : HoldsAt(i, last.name, last.data)
  /\ CountCommand(outbox, "rendered") = Cardinality(PostsOf("rendered"))

\* C14 as amended: at that moment the entry of n holds d, or the empty object
\* when d is falsy; the save is the effect just before the message
C14_SavedBeforeRendered ==
  /\ last.op = "renderTemplate"
       => \A i \in PostsOf("rendered") :
            /\ HoldsAt(i, last.name, OrEmptyObject(last.data))
            /\ i > 1
            /\ order[i - 1] = Effect("save", getTemplateDataKey(last.name), order[i].cache)
  /\ CountCommand(outbox, "rendered") = Cardinality(PostsOf("rendered"))

\* C14 witness: template a was rendered with new data after an earlier render
\* had saved other data for it
C14_Witness ==
  /\ RenderAnswered("rendered")
  /\ last.name = "a"
  /\ last.data = "{a:1}"
  /\ PostsOf("rendered") = {2}
  /\ HoldsAt(2, "a", "{a:1}")
  /\ HoldsAt(2, "b", "{}")

\* C15: every renderTemplate request handled while the panel is open is
\* answered by exactly one message that is rendered or error, as the last
\* message of the step; a template whose text does not compile yields the
\* error message with the engine's message, and the handler stays installed
\* and answers the next request
C15_ExactlyOneAnswer ==
  /\ [](last.op = "renderTemplate"
          => /\ CountCommand(outbox, "rendered") + CountCommand(outbox, "error") = 1
             /\ outbox[Len(outbox)].command \in {"rendered", "error"}
             /\ (last.name = "a" /\ fs["/w/views/a.hbs"] = "bad")
                  => outbox[Len(outbox)] = Msg("error", "Parse error"))
  /\ [][\A n \in DataNames, d \in DataSent :
          RenderStep(n, d) => (Receiving' /\ UNCHANGED <<panel, panels, handlers>>)]_vars

\* C15 witness: a template that no longer compiles was answered with the
\* engine's error, after an earlier render of it had succeeded, and the
\* handler is still installed
C15_Witness ==
  /\ last.op = "renderTemplate"
  /\ last.name = "a"
  /\ outbox = <<Msg("partialsRegistered", ""), Msg("error", "Parse error")>>
  /\ sent["a"] = "{a:1}"
  /\ Receiving

-----------------------------------------------------------------------------
(* Properties of the renders and the partial table, under SpecRender *)

\* the last step rendered a template that was found (renderTemplate got past
\* its lookup and ran registerPartials)
RenderedFound ==
  /\ last.op = "renderTemplate"
  /\ outbox[1].command = "partialsRegistered"

\* the partial table holds the present content of file f under its name
\* relative to the workspace root and under its bare name
FreshInTable(f) ==
  \A k \in {Replace(Replace(f, workspaceRoot \o "/", ""), ".hbs", ""),
             Replace(BaseName(f), ".hbs", "")} :
    k \in DOMAIN partials /\ partials[k] = fs[f]

\* C16: in every render of a template that is found, all partial files are
\* re-registered before the template is compiled: afterwards the table holds
\* the on-disk content of every existing partial file, and the answer is the
\* one the engine gives with that content (the markup made with the partial's
\* present text, a parse error when that text does not compile), also when the
\* event of the partial's last edit has not been delivered
C16_RenderSeesDisk ==
  RenderedFound
    => /\ \A root \in Range(getPartialsDirectories) : \A f \in FilesUnder(root) :
            fs[f] # Absent => FreshInTable(f)
       /\ (last.name = "a" /\ fs["/w/p/card.hbs"] # Absent)
            => outbox[2] = IF fs["/w/p/card.hbs"] = "bad"
                           THEN Msg("error", "Parse error")
                           ELSE Msg("rendered", [template |-> fs["/w/views/a.hbs"],
                                                 partial |-> fs["/w/p/card.hbs"],
                                                 helper |-> "",
                                                 data |-> "{a:1}"])

\* C16 witness: the partial was edited, the watch event of the edit is still
\* queued, and a render of the template that includes it shows the new text
C16_Witness ==
  /\ RenderedFound
  /\ last.name = "a"
  /\ events # <<>>
  /\ fs["/w/p/card.hbs"] = "v2"
  /\ outbox[2].command = "rendered"
  /\ outbox[2].payload.partial = "v2"

-----------------------------------------------------------------------------
(* Properties of the helper loads, under SpecExports *)

\* the function the module of the given content exports under key k
HelperBody(content, k) ==
  LET entries == ExportedHelpers(ModuleOf(content)).entries
  IN entries[CHOOSE j \in 1..Len(entries) : entries[j].name = k].value.body

\* C17: a load has one suspension point, its import; its resumption is one
\* step of the host's scheduler, in which it registers every helper of the
\* module it imported and touches no other entry of the table; a second load
\* started back to back stays suspended during that step, so neither it nor
\* any callback ever sees the table with part of a load's helpers
C17_LoadRegistersWhole ==
  [][\A content \in ExportShapes \ {"throws"} : \A i \in 1..MaxLoads :
       (fs[HelpersFile] = content /\ loads[i] = HelpersFile /\ LoadResumes(i))
         => /\ \A k \in CallableKeys(content) :
                 k \in DOMAIN helpers' /\ helpers'[k] = HelperBody(content, k)
            /\ \A k \in (DOMAIN helpers) \ CallableKeys(content) :
                 k \in DOMAIN helpers' /\ helpers'[k] = helpers[k]
            /\ DOMAIN helpers' = DOMAIN helpers \cup CallableKeys(content)
            /\ \A j \in (1..MaxLoads) \ {i} : loads'[j] = loads[j]
            /\ loads'[i] = ""]_vars

\* C17 witness: of two loads suspended together, the first has registered
\* both helpers of its module over those of an earlier one, while the second
\* is still suspended
C17_Witness ==
  /\ last.op = "loadCustomHelpers"
  /\ last.n = 1
  /\ loads[2] = HelpersFile
  /\ fs[HelpersFile] = "pair=f2"
  /\ DOMAIN helpers = {"greet", "shout"}
  /\ helpers["greet"] = "f2" /\ helpers["shout"] = "f2"

\* no helpers file is configured, or the configured path does not exist
NothingToLoad ==
  \/ getConfiguration.customHelpersFile = ""
  \/ ~existsSync(ResolvePath(getConfiguration.customHelpersFile))

ReloadingNote == Note("info", "Handlebars Live Preview: Reloading helpers...")

\* C18: a helper load with no helpers file configured, or with a configured
\* path that does not exist, starts no import, leaves the helper table as it
\* is and shows nothing to the user (at activation nothing at all, on reload
\* only the "Reloading helpers..." message of reloadHelpers itself); and the
\* promise of a load never reaches the host rejected, whatever the import
\* yields: a missing file, a failing import or a malformed export
C18_LoadFailuresContained ==
  /\ []((last.op = "activate" /\ NothingToLoad)
          => /\ \A i \in 1..MaxLoads : loads[i] = ""
             /\ helpers = EmptyMap
             /\ notes = <<>>)
  /\ [](last.op = "loadCustomHelpers" => last.data \in {"fulfilled", "caught"})
  /\ [][(reloadHelpers /\ NothingToLoad)
          => /\ loads' = loads
             /\ helpers' = helpers
             /\ notes' = <<ReloadingNote>>]_vars

\* C18 witness: helpers were loaded, the helpers file was deleted, and a
\* reload then changed nothing and showed nothing of its own
C18_Witness ==
  /\ last = Op("reloadHelpers", "", "", 0)
  /\ getConfiguration.customHelpersFile = "h.js"
  /\ fs[HelpersFile] = Absent
  /\ "greet" \in DOMAIN helpers
  /\ \A i \in 1..MaxLoads : loads[i] = ""
  /\ notes = <<ReloadingNote>>

\* C19: no step removes a name from the partial table, and a step changes
\* the content under a name only by registering a file that exists under that
\* name; so after a partial file is deleted, every later re-registration (by
\* a watch event, a render or a panel open) leaves its names in the table with
\* the content last registered for them
C19_PartialsNeverShrink ==
  [][/\ DOMAIN partials \subseteq DOMAIN partials'
     /\ \A k \in DOMAIN partials :
          \/ partials'[k] = partials[k]
          \/ \E f \in HbsFiles :
               /\ fs'[f] # Absent
               /\ partials'[k] = fs'[f]
               /\ k \in {Replace(Replace(f, workspaceRoot \o "/", ""), ".hbs", ""),
                          Replace(BaseName(f), ".hbs", "")}]_vars

\* C19 witness: the partial file was edited and then deleted, its watch
\* events were delivered, and a template rendered afterwards still includes
\* the text last registered for it
C19_Witness ==
  /\ RenderedFound
  /\ last.name = "a"
  /\ events = <<>>
  /\ tally.kind = "delete"
  /\ tally.delivered = 1
  /\ fs["/w/p/card.hbs"] = Absent
  /\ {"card", "p/card"} \subseteq DOMAIN partials
  /\ partials["card"] = "v2" /\ partials["p/card"] = "v2"
  /\ outbox[2].command = "rendered"
  /\ outbox[2].payload.partial = "v2"

-----------------------------------------------------------------------------
(* Properties of the data store among the other operations, under SpecFrame *)

\* the cache entry under key, or "none"
EntryOf(map, key) == IF key \in DOMAIN map THEN map[key] ELSE "none"

\* C20: a step changes the cache entry of a template name only when it is a
\* successful render or a clear of that very name; a getTemplateData request,
\* a failed render, a panel close or open, a watch event, a helper reload, a
\* list refresh and the clear-data command change no entry; so an entry saved
\* for n is what getTemplateData(n) returns until n is cleared or rendered
\* successfully again
C20_CacheFrame ==
  /\ [][\A n \in ReqNames :
          EntryOf(cache', getTemplateDataKey(n)) # EntryOf(cache, getTemplateDataKey(n))
            => /\ last'.name = n
               /\ \/ last'.op = "clearTemplateData"
                  \/ last'.op = "renderTemplate"
                       /\ outbox'[Len(outbox')].command = "rendered"]_vars
  /\ [](\A n \in ReqNames :
          /\ sent[n] \in {"none", "cleared"} => getTemplateDataKey(n) \notin DOMAIN cache
          /\ sent[n] \notin {"none", "cleared"}
               => getTemplateData(cache, n) = OrEmptyObject(sent[n]))
  /\ [](DOMAIN cache \subseteq {getTemplateDataKey(n) : n \in ReqNames})

\* C20 witness: with data saved for a and for b, the panel was closed, a
\* helper reload has registered its helpers, and both entries are still there
C20_Witness ==
  /\ last.op = "loadCustomHelpers"
  /\ panel = 0
  /\ reload.registered
  /\ tally.delivered >= 1
  /\ EntryOf(cache, getTemplateDataKey("a")) = "{a:1}"
  /\ EntryOf(cache, getTemplateDataKey("b")) = "{a:2}"

-----------------------------------------------------------------------------
(* Properties of the template scan while reads fail, under SpecScan *)

\* file f lies in a subtree whose read fails: f itself or a directory above it
InFailingSubtree(f) == \E q \in faults : q = f \/ StartsWith(f, q \o "/")

\* the template files a scan without failures lists: present, under a
\* template directory, with a name the filter lets through
Listable ==
  {f \in HbsFiles :
     /\ fs[f] # Absent
     /\ \E d \in Range(getTemplateDirectories) :
          /\ StartsWith(f, d \o "/")
          /\ ~Includes(Replace(Replace(f, d \o "/", ""), ".hbs", ""), "components/")}

\* C21 as claimed: when reads fail during a template scan, the scan still
\* returns a list and the requester gets no error, and the list lacks only the
\* templates inside a failing subtree: every other template, the other
\* entries of the same directory and those of the other roots included, is in it
C21_OnlyFailingSubtreeMissing ==
  last.op = "getTemplates"
    => /\ Len(outbox) = 1
       /\ outbox[1].command = "templates"
       /\ \A f \in Listable :
            ~InFailingSubtree(f)
              => \E i \in 1..Len(outbox[1].payload) : outbox[1].payload[i].fullPath = f

-----------------------------------------------------------------------------
(* Properties of the requests for filtered names, under SpecRender *)

\* C22: a renderTemplate request for a name that contains "components/" is
\* answered by the single message error 'Template not found: <name>', also
\* when a template file of that name exists under a template directory; it
\* leaves the partial table as it was (no re-registration, no
\* partialsRegistered message) and the data cache as it was
C22_ComponentsNotRendered ==
  [][\A n \in RenderNames :
       (Includes(n, "components/") /\ RenderStep(n, "{a:1}"))
         => /\ outbox' = <<Msg("error", "Template not found: " \o n)>>
            /\ partials' = partials
            /\ cache' = cache]_vars

\* C22 witness: components/c.hbs exists, a request for components/c was
\* refused, and the partial table still holds the text the partial had
\* before its last edit
C22_Witness ==
  /\ last = Op("renderTemplate", "components/c", "{a:1}", 0)
  /\ fs["/w/views/components/c.hbs"] # Absent
  /\ outbox = <<Msg("error", "Template not found: components/c")>>
  /\ fs["/w/p/card.hbs"] = "v2"
  /\ "card" \in DOMAIN partials
  /\ partials["card"] = "v1"
  /\ getTemplateDataKey("a") \in DOMAIN cache
  /\ getTemplateDataKey("components/c") \notin DOMAIN cache

=============================================================================
